---------------------------- MODULE Spec2Model ----------------------------
(***************************************************************************)
(* crate_compat: incompatibility records (src/src/lib.rs).                 *)
(*                                                                         *)
(* An IncompatRecord names an affected side (target), a conflicting side   *)
(* (conflicts), an optional reason and optional references.  Six           *)
(* predicates query one record; Display renders it.  The state machine     *)
(* holds one record, the latest call made on it with its result, and the   *)
(* first call made on it with its result (kept by the caller of SpecSeq).  *)
(*                                                                         *)
(* Option<T> is a sequence of length at most one: None is << >>, Some(x)   *)
(* is << x >>.  A semver::Version is << major, minor, patch >>.  A         *)
(* semver::VersionReq is a sequence of comparators, each an operator and   *)
(* a possibly partial version.  Rendered text is the sequence of strings   *)
(* the write! calls hand to the formatter, one per line, each with its     *)
(* line terminator.                                                        *)
(***************************************************************************)
EXTENDS Integers, Sequences, FiniteSets, TLC

VARIABLES rec, op, name, ver, result, first

vars == << rec, op, name, ver, result, first >>

(* Longest references sequence of a record. *)
MaxRefs == 2

None == << >>
Some(x) == << x >>

---------------------------------------------------------------------------
(* semver: versions, requirements, VersionReq::matches and Display.        *)

Cmp(o, major, minor, patch) ==
    [op |-> o, major |-> major, minor |-> minor, patch |-> patch]

(* "< 1.0.7" *)
ReqLt107 == << Cmp("<", 1, Some(0), Some(7)) >>
(* ">= 1.0.3" *)
ReqGe103 == << Cmp(">=", 1, Some(0), Some(3)) >>
(* "< 1.31" *)
ReqLt131 == << Cmp("<", 1, Some(31), None) >>
(* ">= 1.0.3, < 1.0.7" *)
ReqGe103Lt107 == << Cmp(">=", 1, Some(0), Some(3)), Cmp("<", 1, Some(0), Some(7)) >>

(* "> 1.30" *)
ReqGt130 == << Cmp(">", 1, Some(30), None) >>
(* "<= 1.0.3" *)
ReqLe103 == << Cmp("<=", 1, Some(0), Some(3)) >>
(* "= 1.0.3" *)
ReqEq103 == << Cmp("=", 1, Some(0), Some(3)) >>

Reqs == { ReqLt107, ReqGe103, ReqLt131, ReqGe103Lt107, ReqGt130, ReqLe103, ReqEq103 }

Versions == { <<1, 0, 2>>, <<1, 0, 3>>, <<1, 0, 7>>, <<1, 30, 0>>, <<1, 31, 0>> }

matches_exact(cmp, v) ==
    /\ v[1] = cmp.major
    /\ (cmp.minor # None => v[2] = cmp.minor[1])
    /\ (cmp.patch # None => v[3] = cmp.patch[1])

matches_greater(cmp, v) ==
    IF v[1] # cmp.major THEN v[1] > cmp.major
    ELSE IF cmp.minor = None THEN FALSE
    ELSE IF v[2] # cmp.minor[1] THEN v[2] > cmp.minor[1]
    ELSE IF cmp.patch = None THEN FALSE
    ELSE IF v[3] # cmp.patch[1] THEN v[3] > cmp.patch[1]
    ELSE FALSE

matches_less(cmp, v) ==
    IF v[1] # cmp.major THEN v[1] < cmp.major
    ELSE IF cmp.minor = None THEN FALSE
    ELSE IF v[2] # cmp.minor[1] THEN v[2] < cmp.minor[1]
    ELSE IF cmp.patch = None THEN FALSE
    ELSE IF v[3] # cmp.patch[1] THEN v[3] < cmp.patch[1]
    ELSE FALSE

matches_comparator(cmp, v) ==
    CASE cmp.op = "="  -> matches_exact(cmp, v)
      [] cmp.op = ">"  -> matches_greater(cmp, v)
      [] cmp.op = ">=" -> matches_exact(cmp, v) \/ matches_greater(cmp, v)
      [] cmp.op = "<"  -> matches_less(cmp, v)
      [] cmp.op = "<=" -> matches_exact(cmp, v) \/ matches_less(cmp, v)

(* VersionReq::matches: every comparator accepts the version. *)
matches(req, v) == \A i \in 1..Len(req) : matches_comparator(req[i], v)

Comparator_fmt(cmp) ==
    cmp.op \o ToString(cmp.major)
      \o (IF cmp.minor = None THEN "" ELSE "." \o ToString(cmp.minor[1]))
      \o (IF cmp.patch = None THEN "" ELSE "." \o ToString(cmp.patch[1]))

RECURSIVE VersionReq_fmt(_)
VersionReq_fmt(req) ==
    IF Len(req) = 1 THEN Comparator_fmt(req[1])
    ELSE Comparator_fmt(req[1]) \o ", " \o VersionReq_fmt(Tail(req))

---------------------------------------------------------------------------
(* Target, RefType, IncompatRecord.                                        *)

Crate(n, req) == [kind |-> "Crate", name |-> n, req |-> req]
Rust(req) == [kind |-> "Rust", req |-> req]

Bug(url) == [kind |-> "Bug", url |-> url]
PullRequest(url) == [kind |-> "PullRequest", url |-> url]
Commit(url) == [kind |-> "Commit", url |-> url]

IncompatRecord(t, c, reason, references) ==
    [target |-> t, conflicts |-> c, reason |-> reason, references |-> references]

FAILURE_DERIVE ==
    IncompatRecord(
        Crate("failure_derive", ReqLt107),
        Crate("quote", ReqGe103),
        Some("Broken by rename of quote::_rt to quote::_private in 1.0.3"),
        Some(<< Bug("https://github.com/withoutboats/failure_derive/issues/13"),
                Bug("https://github.com/rust-lang-nursery/failure/issues/342"),
                PullRequest("https://github.com/rust-lang-nursery/failure/pull/343"),
                PullRequest("https://github.com/rust-lang-nursery/failure/pull/345"),
                Commit("https://github.com/dtolnay/quote/commit/41543890aa76f4f8046fffac536b9445275aab26") >>))

FAILURE_BADRUST ==
    IncompatRecord(
        Crate("failure_derive", ReqLt107),
        Rust(ReqLt131),
        Some("Documented minimum supported rust"),
        Some(<< Commit("https://github.com/rust-lang-nursery/failure/commit/996f919f1e1741b08673b15f893221694097cc9f") >>))

(* Crate names records carry, and names callers ask about. *)
CrateNames == { "failure_derive", "quote" }
Names == CrateNames \cup { "failure_deriv", "quot", "Failure_Derive" }

Targets == { Crate(n, q) : n \in CrateNames, q \in Reqs } \cup { Rust(q) : q \in Reqs }

Reasons == { None, Some(""), Some("Documented minimum supported rust") }

RefUrl == "https://github.com/rust-lang-nursery/failure/pull/343"
RefTypes == { Bug(RefUrl), PullRequest(RefUrl), Commit(RefUrl) }

RefSeqs == UNION { [1..k -> RefTypes] : k \in 0..MaxRefs }
References == { None } \cup { Some(s) : s \in RefSeqs }

(* The records a caller may hold: every pair of sides with the reason and *)
(* references of the test fixture, and every reason and references with   *)
(* the sides of the two test fixtures.                                    *)
Records ==
    { IncompatRecord(t, c, FAILURE_BADRUST.reason, FAILURE_BADRUST.references) :
        t \in Targets, c \in Targets }
    \cup { IncompatRecord(f.target, f.conflicts, r, s) :
        f \in { FAILURE_DERIVE, FAILURE_BADRUST }, r \in Reasons, s \in References }
    \cup { FAILURE_DERIVE, FAILURE_BADRUST }

---------------------------------------------------------------------------
(* impl IncompatRecord: the six predicates.                                *)

(* affects_crate inspecting the conflicting side. *)
affects_crate_OnConflicts(self, affected_crate) ==
    IF self.conflicts.kind = "Crate"
    THEN self.conflicts.name = affected_crate
    ELSE FALSE

affects_crate(self, affected_crate) ==
    IF self.target.kind = "Crate"
    THEN self.target.name = affected_crate
    ELSE FALSE

(* affects without the range test. *)
affects_NameOnly(self, affected_crate, req) ==
    IF self.target.kind = "Crate"
    THEN self.target.name = affected_crate
    ELSE FALSE

(* affects without the name test. *)
affects_RangeOnly(self, affected_crate, req) ==
    IF self.target.kind = "Crate"
    THEN matches(self.target.req, req)
    ELSE FALSE

affects(self, affected_crate, req) ==
    IF self.target.kind = "Crate"
    THEN self.target.name = affected_crate /\ matches(self.target.req, req)
    ELSE FALSE

(* has_conflicts answering for a toolchain conflict as well. *)
has_conflicts_AnyKind(self, conflicting_crate) ==
    IF self.conflicts.kind = "Crate"
    THEN self.conflicts.name = conflicting_crate
    ELSE conflicting_crate = "quote"

has_conflicts(self, conflicting_crate) ==
    IF self.conflicts.kind = "Crate"
    THEN self.conflicts.name = conflicting_crate
    ELSE FALSE

(* conflicts copied from affects with self.target left in place. *)
conflicts_OnTarget(self, conflicting_crate, req) ==
    IF self.target.kind = "Crate"
    THEN self.target.name = conflicting_crate /\ matches(self.target.req, req)
    ELSE FALSE

conflicts(self, conflicting_crate, req) ==
    IF self.conflicts.kind = "Crate"
    THEN self.conflicts.name = conflicting_crate /\ matches(self.conflicts.req, req)
    ELSE FALSE

(* has_rust_conflicts inspecting the affected side. *)
has_rust_conflicts_OnTarget(self) ==
    IF self.target.kind = "Rust" THEN TRUE ELSE FALSE

has_rust_conflicts(self) ==
    IF self.conflicts.kind = "Rust" THEN TRUE ELSE FALSE

(* rust_conflicts matching the range of either variant. *)
rust_conflicts_AnyKind(self, req) ==
    matches(self.conflicts.req, req)

rust_conflicts(self, req) ==
    IF self.conflicts.kind = "Rust"
    THEN matches(self.conflicts.req, req)
    ELSE FALSE

---------------------------------------------------------------------------
(* Display.                                                                *)

Target_fmt(t) ==
    IF t.kind = "Rust"
    THEN "rust(" \o VersionReq_fmt(t.req) \o ")"
    ELSE "crate(" \o t.name \o " " \o VersionReq_fmt(t.req) \o ")"

(* RefType's Display with the variant's own name as the label. *)
RefType_fmt_VariantName(r) ==
    r.kind \o ": " \o r.url

RefType_fmt(r) ==
    CASE r.kind = "Bug"         -> "Bug: " \o r.url
      [] r.kind = "PullRequest" -> "Pull: " \o r.url
      [] r.kind = "Commit"      -> "Commit: " \o r.url

(* The references block without the test for an empty sequence. *)
References_fmt_NoLenTest(references) ==
    IF references # None
    THEN << "References:\n" >>
         \o [i \in 1..Len(references[1]) |->
               "- " \o RefType_fmt(references[1][i]) \o "\n"]
    ELSE << >>

(* The chunks written for the references, header first. *)
References_fmt(references) ==
    IF references # None
    THEN IF Len(references[1]) > 0
         THEN << "References:\n" >>
              \o [i \in 1..Len(references[1]) |->
                    "- " \o RefType_fmt(references[1][i]) \o "\n"]
         ELSE << >>
    ELSE << >>

IncompatRecord_fmt(self) ==
    << Target_fmt(self.target) \o " with " \o Target_fmt(self.conflicts) \o "\n" >>
      \o (IF self.reason # None THEN << "- " \o self.reason[1] \o "\n" >> ELSE << >>)
      \o References_fmt(self.references)



---------------------------------------------------------------------------
(* The state machine: a caller holding one record and calling on it.       *)

NoName == ""
NoVer == << >>
NoCall == [op |-> "none", name |-> NoName, ver |-> NoVer, result |-> FALSE,
           again |-> FALSE]

PredicateOps == { "affects_crate", "affects", "has_conflicts", "conflicts",
                  "has_rust_conflicts", "rust_conflicts" }

(* The record with its two sides exchanged. *)
Swap(r) == [r EXCEPT !.target = r.conflicts, !.conflicts = r.target]

Init ==
    /\ rec \in Records
    /\ op = "none"
    /\ name = NoName
    /\ ver = NoVer
    /\ result = FALSE
    /\ first = NoCall

(* A call returns.  Every method takes &self: the record stays as it is.   *)
Return(o, n, v, res) ==
    /\ op' = o
    /\ name' = n
    /\ ver' = v
    /\ result' = res
    /\ rec' = rec

CallAffectsCrate ==
    \E n \in Names : Return("affects_crate", n, NoVer, affects_crate(rec, n))

CallAffects ==
    \E n \in Names, v \in Versions : Return("affects", n, v, affects(rec, n, v))

CallHasConflicts ==
    \E n \in Names : Return("has_conflicts", n, NoVer, has_conflicts(rec, n))

(* conflicts answering by exchanging the two sides in place and asking     *)
(* affects, without exchanging them back.                                  *)
CallConflicts_SwapInPlace ==
    \E n \in Names, v \in Versions :
        /\ op' = "conflicts"
        /\ name' = n
        /\ ver' = v
        /\ result' = affects(Swap(rec), n, v)
        /\ rec' = Swap(rec)

CallConflicts ==
    \E n \in Names, v \in Versions : Return("conflicts", n, v, conflicts(rec, n, v))

CallHasRustConflicts ==
    Return("has_rust_conflicts", NoName, NoVer, has_rust_conflicts(rec))

CallRustConflicts ==
    \E v \in Versions : Return("rust_conflicts", NoName, v, rust_conflicts(rec, v))

CallFmt ==
    Return("fmt", NoName, NoVer, IncompatRecord_fmt(rec))

Next ==
    \/ CallAffectsCrate /\ UNCHANGED first
    \/ CallAffects /\ UNCHANGED first
    \/ CallHasConflicts /\ UNCHANGED first
    \/ CallConflicts /\ UNCHANGED first
    \/ CallHasRustConflicts /\ UNCHANGED first
    \/ CallRustConflicts /\ UNCHANGED first
    \/ CallFmt /\ UNCHANGED first

Spec == Init /\ [][Next]_vars

(* The caller that keeps the first call it made and its result, over the   *)
(* test fixtures and the records built from their sides.                   *)
SeqTargets == { FAILURE_DERIVE.target, FAILURE_DERIVE.conflicts, FAILURE_BADRUST.conflicts }

SeqRecords ==
    { IncompatRecord(t, c, FAILURE_BADRUST.reason, FAILURE_BADRUST.references) :
        t \in SeqTargets, c \in SeqTargets }
    \cup { FAILURE_DERIVE, FAILURE_BADRUST }

InitSeq ==
    /\ rec \in SeqRecords
    /\ op = "none"
    /\ name = NoName
    /\ ver = NoVer
    /\ result = FALSE
    /\ first = NoCall

(* The caller keeps its first call, and notes when it makes it again. *)
Remember ==
    first' = IF first.op = "none"
             THEN [op |-> op', name |-> name', ver |-> ver', result |-> result',
                   again |-> FALSE]
             ELSE [first EXCEPT !.again =
                      @ \/ (op' = first.op /\ name' = first.name /\ ver' = first.ver)]

NextSeq ==
    \/ CallAffectsCrate /\ Remember
    \/ CallAffects /\ Remember
    \/ CallHasConflicts /\ Remember
    \/ CallConflicts /\ Remember
    \/ CallHasRustConflicts /\ Remember
    \/ CallRustConflicts /\ Remember
    \/ CallFmt /\ Remember

SpecSeq == InitSeq /\ [][NextSeq]_vars

---------------------------------------------------------------------------
(* Properties.                                                             *)

(* The label the rendering gives each reference variant. *)
KindLabel(k) ==
    CASE k = "Bug" -> "Bug" [] k = "PullRequest" -> "Pull" [] k = "Commit" -> "Commit"

HasRefs(r) == r.references # None /\ Len(r.references[1]) > 0

(* C1: affects(n, v) is true exactly when target is Crate(name, range)     *)
(* with name = n and v in range; false for every other name and for every  *)
(* Rust target, whatever conflicts is.  The fixture's range "< 1.0.7"      *)
(* contains 1.0.3 and not 1.0.7.                                           *)
C1_Affects ==
    op = "affects" =>
        /\ result = ( /\ rec.target.kind = "Crate"
                      /\ rec.target.name = name
                      /\ matches(rec.target.req, ver) )
        /\ (rec.target.kind = "Rust" => result = FALSE)
        /\ (rec.target.kind = "Crate" /\ rec.target.name # name => result = FALSE)
        /\ \A c \in Targets : affects([rec EXCEPT !.conflicts = c], name, ver) = result
        /\ (rec.target = FAILURE_DERIVE.target /\ name = "failure_derive" =>
              /\ (ver = <<1, 0, 3>> => result = TRUE)
              /\ (ver = <<1, 0, 7>> => result = FALSE))

C1_Witness ==
    /\ op = "affects"
    /\ result = TRUE
    /\ rec.target = FAILURE_DERIVE.target
    /\ rec.conflicts.kind = "Rust"
    /\ ver = <<1, 0, 3>>
    /\ \E v \in Versions : ~matches(rec.target.req, v)

(* C2: affects_crate(n) is true exactly when target is a Crate whose name  *)
(* equals n (a proper prefix does not match); the stored range has no      *)
(* influence; false for every Rust target.                                 *)
C2_AffectsCrate ==
    op = "affects_crate" =>
        /\ result = (rec.target.kind = "Crate" /\ rec.target.name = name)
        /\ (rec.target.kind = "Rust" => result = FALSE)
        /\ (rec.target.kind = "Crate" /\ rec.target.name = "failure_derive"
              /\ name \in { "failure_deriv", "Failure_Derive" } => result = FALSE)
        /\ \A q \in Reqs :
              affects_crate([rec EXCEPT !.target.req = q], name) = result

C2_Witness ==
    /\ op = "affects_crate"
    /\ result = TRUE
    /\ name = "failure_derive"
    /\ rec.conflicts.kind = "Crate"
    /\ rec.conflicts.name # name

(* C3: has_conflicts(n) and conflicts(n, v) are affects_crate(n) and       *)
(* affects(n, v) of the record with target and conflicts exchanged; they   *)
(* depend on conflicts only, never on target, and are false whenever       *)
(* conflicts is Rust(..).                                                  *)
C3_Mirror ==
    /\ op = "has_conflicts" =>
          /\ result = affects_crate(Swap(rec), name)
          /\ \A t \in Targets : has_conflicts([rec EXCEPT !.target = t], name) = result
          /\ (rec.conflicts.kind = "Rust" => result = FALSE)
    /\ op = "conflicts" =>
          /\ result = affects(Swap(rec), name, ver)
          /\ \A t \in Targets : conflicts([rec EXCEPT !.target = t], name, ver) = result
          /\ (rec.conflicts.kind = "Rust" => result = FALSE)

C3_Witness ==
    /\ op = "conflicts"
    /\ result = TRUE
    /\ rec.conflicts = FAILURE_DERIVE.conflicts
    /\ rec.target.kind = "Crate"
    /\ rec.target.name # name
    /\ ~matches(rec.target.req, ver)

(* C4: rust_conflicts(v) is true exactly when conflicts is Rust(range) and *)
(* v is in range; false for every Crate conflicts; for "< 1.31" it is true *)
(* for 1.30.0 and false for 1.31.0.                                        *)
C4_RustConflicts ==
    op = "rust_conflicts" =>
        /\ result = (rec.conflicts.kind = "Rust" /\ matches(rec.conflicts.req, ver))
        /\ (rec.conflicts.kind = "Crate" => result = FALSE)
        /\ (rec.conflicts = Rust(ReqLt131) =>
              /\ (ver = <<1, 30, 0>> => result = TRUE)
              /\ (ver = <<1, 31, 0>> => result = FALSE))

C4_Witness ==
    /\ op = "rust_conflicts"
    /\ rec.conflicts = Rust(ReqLt131)
    /\ ver = <<1, 30, 0>>
    /\ result = TRUE

(* C5: has_rust_conflicts() is true exactly when conflicts is the Rust     *)
(* variant, for any range; target, reason and references play no part.     *)
C5_HasRustConflicts ==
    op = "has_rust_conflicts" =>
        /\ result = (rec.conflicts.kind = "Rust")
        /\ \A q \in Reqs :
              has_rust_conflicts([rec EXCEPT !.conflicts.req = q]) = result
        /\ \A t \in Targets, r \in Reasons, s \in References :
              has_rust_conflicts(
                  [rec EXCEPT !.target = t, !.reason = r, !.references = s]) = result

C5_Witness ==
    /\ op = "has_rust_conflicts"
    /\ result = TRUE
    /\ rec.target.kind = "Crate"
    /\ rec.conflicts.req # ReqLt131

(* C6 as stated: a record with references renders a "References:" line     *)
(* followed by one line per reference, in order, each exactly              *)
(* "<Kind>: <locator>".                                                    *)
C6_Original ==
    op = "fmt" /\ HasRefs(rec) =>
        LET refs == rec.references[1]
            h == Len(result) - Len(refs)
        IN  /\ h >= 2
            /\ result[h] = "References:\n"
            /\ \A i \in 1..Len(refs) :
                  result[h + i] = KindLabel(refs[i].kind) \o ": " \o refs[i].url \o "\n"

(* C6 amended: a record with references renders a "References:" line       *)
(* followed by one line per reference, in order, each exactly              *)
(* "- <Kind>: <locator>" with Kind one of Bug, Pull, Commit.               *)
C6_References ==
    op = "fmt" /\ HasRefs(rec) =>
        LET refs == rec.references[1]
            h == Len(result) - Len(refs)
        IN  /\ h >= 2
            /\ result[h] = "References:\n"
            /\ \A i \in 1..(h - 1) : result[i] # "References:\n"
            /\ \A i \in 1..Len(refs) :
                  result[h + i] =
                      "- " \o KindLabel(refs[i].kind) \o ": " \o refs[i].url \o "\n"

C6_Witness ==
    /\ op = "fmt"
    /\ HasRefs(rec)
    /\ Len(rec.references[1]) = 2
    /\ rec.references[1][1].kind = "PullRequest"
    /\ rec.references[1][2].kind = "Bug"
    /\ result[Len(result) - 1] = "- Pull: " \o RefUrl \o "\n"
    /\ result[Len(result)] = "- Bug: " \o RefUrl \o "\n"

(* C7: the rendering begins with "<target> with <conflicts>"; the          *)
(* "- <reason>" line is there exactly when reason is present; the          *)
(* "References:" block is there exactly when references is present and     *)
(* non-empty; neither toggle touches the other or the first line; absent   *)
(* references render as empty references do.                               *)
C7_Layout ==
    op = "fmt" =>
        LET k == IF rec.reason # None THEN 1 ELSE 0
            m == IF HasRefs(rec) THEN 1 + Len(rec.references[1]) ELSE 0
        IN  /\ Len(result) = 1 + k + m
            /\ result[1] =
                  Target_fmt(rec.target) \o " with " \o Target_fmt(rec.conflicts) \o "\n"
            /\ (rec.reason # None => result[2] = "- " \o rec.reason[1] \o "\n")
            /\ (HasRefs(rec) <=> \E i \in 1..Len(result) : result[i] = "References:\n")
            /\ (HasRefs(rec) => result[2 + k] = "References:\n")
            /\ \A r \in Reasons, s \in References :
                  LET other == IncompatRecord_fmt([rec EXCEPT !.reason = r, !.references = s])
                  IN  /\ other[1] = result[1]
                      /\ (r = rec.reason =>
                            SubSeq(other, 1, 1 + k) = SubSeq(result, 1, 1 + k))
                      /\ (s = rec.references =>
                            /\ Len(other) - m >= 1
                            /\ SubSeq(other, Len(other) - m + 1, Len(other))
                                 = SubSeq(result, 2 + k, Len(result)))
            /\ IncompatRecord_fmt([rec EXCEPT !.references = None])
                 = IncompatRecord_fmt([rec EXCEPT !.references = Some(<< >>)])

C7_Witness ==
    /\ op = "fmt"
    /\ rec.reason = None
    /\ rec.references = Some(<< >>)
    /\ result = << "crate(failure_derive <1.0.7) with rust(<1.31)\n" >>

(* C8: whatever calls are made, in whatever order, the record's four       *)
(* fields stay as they were, every predicate returns a boolean, and a call *)
(* made again with the arguments of the first call returns what the first  *)
(* call returned.                                                          *)
C8_Step ==
    /\ rec' = rec
    /\ (op' \in PredicateOps => result' \in BOOLEAN)
    /\ (first.op = op' /\ first.name = name' /\ first.ver = ver' =>
          result' = first.result)

C8_Frame == [][C8_Step]_vars

C8_Witness ==
    /\ first.op = "conflicts"
    /\ first.again
    /\ first.result = TRUE
    /\ op = "conflicts"
    /\ name = first.name
    /\ ver = first.ver
    /\ result = TRUE
    /\ rec = FAILURE_DERIVE

(* C9: affects(n, v) implies affects_crate(n), conflicts(n, v) implies     *)
(* has_conflicts(n), rust_conflicts(v) implies has_rust_conflicts(); the   *)
(* converses fail when the name matches and the version is out of range.   *)
C9_Implies ==
    /\ \A n \in Names, v \in Versions :
          /\ affects(rec, n, v) => affects_crate(rec, n)
          /\ conflicts(rec, n, v) => has_conflicts(rec, n)
          /\ rust_conflicts(rec, v) => has_rust_conflicts(rec)
    /\ (op = "affects" /\ result = TRUE => affects_crate(rec, name))
    /\ (op = "conflicts" /\ result = TRUE => has_conflicts(rec, name))
    /\ (op = "rust_conflicts" /\ result = TRUE => has_rust_conflicts(rec))
    /\ (op = "affects_crate" /\ result = FALSE =>
          \A v \in Versions : ~affects(rec, name, v))
    /\ (op = "has_conflicts" /\ result = FALSE =>
          \A v \in Versions : ~conflicts(rec, name, v))
    /\ (op = "has_rust_conflicts" /\ result = FALSE =>
          \A v \in Versions : ~rust_conflicts(rec, v))

C9_Witness ==
    /\ op = "affects"
    /\ result = TRUE
    /\ affects_crate(rec, name)
    /\ \E v \in Versions : ~affects(rec, name, v)

(* C10: has_rust_conflicts() is true exactly when has_conflicts(n) is      *)
(* false for every name n; no arguments make conflicts(n, v) and           *)
(* rust_conflicts(w) both true; a record without a toolchain conflict has  *)
(* exactly one name n with has_conflicts(n).                               *)
C10_Partition ==
    /\ has_rust_conflicts(rec) <=> \A n \in Names : ~has_conflicts(rec, n)
    /\ \A n \in Names, v \in Versions, w \in Versions :
          ~(conflicts(rec, n, v) /\ rust_conflicts(rec, w))
    /\ (~has_rust_conflicts(rec) =>
          Cardinality({ n \in Names : has_conflicts(rec, n) }) = 1)
    /\ (op = "has_rust_conflicts" =>
          (result <=> \A n \in Names : ~has_conflicts(rec, n)))
    /\ (op = "has_conflicts" /\ result = TRUE => ~has_rust_conflicts(rec))

C10_Witness ==
    /\ op = "has_rust_conflicts"
    /\ result = FALSE
    /\ has_conflicts(rec, "quote")
    /\ \E v \in Versions : conflicts(rec, "quote", v)

=============================================================================
